---------------------------- MODULE Spec2Model ----------------------------
(***************************************************************************)
(* Model of the level-3 order book checksum program (src/src/main.rs).     *)
(*                                                                         *)
(* The program decodes one book snapshot, scans the asks and then the bids *)
(* counting price levels, canonicalises every scanned order's price and    *)
(* quantity into integer digit strings, appends the strings of the orders  *)
(* it keeps to crc_str, hashes crc_str with CRC-32 and compares the hash   *)
(* to the snapshot's checksum.                                             *)
(*                                                                         *)
(* Numbers: an f64 that was decoded from a decimal literal is modelled as  *)
(* the exact decimal [m, e] = m * 10^(-e); products, differences and       *)
(* comparisons are exact.  Strings are sequences of bytes (ASCII codes).   *)
(***************************************************************************)
EXTENDS Integers, Sequences, FiniteSets

(***************************************************************************)
(* Bounds of the checked inputs.                                           *)
(***************************************************************************)
\* most price levels a generated side has
MaxLevels == 14
\* most entries of the short side that accompanies a long one
MaxShort == 1
\* largest level bound N the selector is tried with
MaxN == 14

(***************************************************************************)
(* Decimal arithmetic (the f64 operations main uses).                      *)
(***************************************************************************)
RECURSIVE Pow10(_)
Pow10(n) == IF n = 0 THEN 1 ELSE 10 * Pow10(n - 1)

Abs(x) == IF x < 0 THEN -x ELSE x

Min(a, b) == IF a < b THEN a ELSE b

Dec(m, e) == [m |-> m, e |-> e]

\* a == b on f64 values (0.0 == -0.0 included: both have m = 0)
F64Eq(a, b) ==
    LET k == Min(a.e, b.e)
    IN  a.m * Pow10(b.e - k) = b.m * Pow10(a.e - k)

\* a < b
F64Lt(a, b) ==
    LET k == Min(a.e, b.e)
    IN  a.m * Pow10(b.e - k) < b.m * Pow10(a.e - k)

\* a - b
F64Sub(a, b) ==
    LET k == IF a.e > b.e THEN a.e ELSE b.e
    IN  Dec(a.m * Pow10(k - a.e) - b.m * Pow10(k - b.e), k)

\* a.abs()
F64Abs(a) == Dec(Abs(a.m), a.e)

\* a * f for an integral factor f (a power of ten cancels against the exponent)
RECURSIVE F64Mul(_, _)
F64Mul(a, f) ==
    IF a.e > 0 /\ f % 10 = 0
    THEN F64Mul(Dec(a.m, a.e - 1), f \div 10)
    ELSE Dec(a.m * f, a.e)

\* a.round() as i64: nearest integer, halves away from zero
RoundI64(a) ==
    LET p   == Pow10(a.e)
        q   == Abs(a.m) \div p
        r   == Abs(a.m) % p
        mag == IF 2 * r >= p THEN q + 1 ELSE q
    IN  IF a.m < 0 THEN -mag ELSE mag

\* i as f64
I64AsF64(i) == Dec(i, 0)

PRICE_PRECISION_FACTOR == Pow10(1)

QTY_PRECISION_FACTOR == Pow10(8)

\* the literal 1e-3 of the asserts
Tolerance == Dec(1, 3)

\* the assert with the tolerance 1 in place of 1e-3
PrecisionLoose(value, factor) ==
    LET x_f  == F64Mul(value, factor)
        x_i  == RoundI64(x_f)
        x_if == I64AsF64(x_i)
    IN  F64Lt(F64Abs(F64Sub(x_f, x_if)), Dec(1, 0))

\* assert!((x_f - x_if).abs() < 1e-3) for x_f = value * factor
PrecisionOk(value, factor) ==
    LET x_f  == F64Mul(value, factor)
        x_i  == RoundI64(x_f)
        x_if == I64AsF64(x_i)
    IN  F64Lt(F64Abs(F64Sub(x_f, x_if)), Tolerance)

\* i64::to_string: base 10, no leading zeros, '-' for a negative value
RECURSIVE Digits(_)
Digits(n) == IF n < 10 THEN <<48 + n>> ELSE Digits(n \div 10) \o <<48 + (n % 10)>>

I64ToString(i) == IF i < 0 THEN <<45>> \o Digits(-i) ELSE Digits(i)

\* price_s / qty_s: (value * factor).round() as i64, to_string()
Canon(value, factor) == I64ToString(RoundI64(F64Mul(value, factor)))

(***************************************************************************)
(* CRC-32 (IEEE), as crc32fast::hash computes it.  A u32 is the tuple of   *)
(* its four bytes, least significant first.                                *)
(***************************************************************************)
\* a ^ b on w-bit numbers
RECURSIVE XorBits(_, _, _)
XorBits(a, b, w) ==
    IF w = 0 THEN 0 ELSE ((a + b) % 2) + 2 * XorBits(a \div 2, b \div 2, w - 1)

XorByte(a, b) == XorBits(a, b, 8)

Xor32(a, b) == <<XorByte(a[1], b[1]), XorByte(a[2], b[2]), XorByte(a[3], b[3]), XorByte(a[4], b[4])>>

\* c >> 1
Shr1(c) ==
    <<(c[1] \div 2) + 128 * (c[2] % 2), (c[2] \div 2) + 128 * (c[3] % 2),
      (c[3] \div 2) + 128 * (c[4] % 2), c[4] \div 2>>

\* c >> 8
Shr8(c) == <<c[2], c[3], c[4], 0>>

\* the reflected polynomial 0xEDB88320
CrcPoly == <<32, 131, 184, 237>>

RECURSIVE CrcRounds(_, _)
CrcRounds(c, n) ==
    IF n = 0 THEN c
    ELSE CrcRounds(IF c[1] % 2 = 1 THEN Xor32(Shr1(c), CrcPoly) ELSE Shr1(c), n - 1)

\* the byte table
CrcTable == [b \in 0..255 |-> CrcRounds(<<b, 0, 0, 0>>, 8)]

CrcUpdate(c, byte) == Xor32(CrcTable[XorByte(c[1], byte)], Shr8(c))

\* the bytes s[lo..hi] folded into c, in order (the range is halved to keep the
\* evaluation shallow)
RECURSIVE CrcFold(_, _, _, _)
CrcFold(c, s, lo, hi) ==
    IF lo > hi THEN c
    ELSE IF lo = hi THEN CrcUpdate(c, s[lo])
    ELSE LET mid  == (lo + hi) \div 2
             left == CrcFold(c, s, lo, mid)
         IN  IF left[1] >= 0 THEN CrcFold(left, s, mid + 1, hi) ELSE left

\* crc32fast::hash(bytes)
Crc32Hash(s) == Xor32(CrcFold(<<255, 255, 255, 255>>, s, 1, Len(s)), <<255, 255, 255, 255>>)

\* the literal ref_str
ref_str ==
    <<52, 52, 57, 51, 57, 53, 52, 53, 50, 51, 48, 56, 51, 57, 51, 52, 52, 57, 51, 57, 53, 49, 49,
    49, 50, 54, 49, 52, 52, 57, 51, 57, 53, 49, 48, 48, 48, 48, 48, 52, 52, 57, 51, 57, 53, 49, 48,
    48, 48, 48, 48, 48, 52, 52, 57, 53, 48, 48, 49, 48, 51, 51, 52, 57, 50, 54, 52, 52, 57, 53, 51,
    48, 54, 52, 53, 51, 55, 52, 52, 57, 53, 53, 48, 50, 53, 48, 48, 48, 48, 52, 52, 57, 53, 57, 54,
    51, 53, 54, 51, 48, 48, 48, 48, 52, 52, 57, 53, 57, 54, 51, 53, 54, 51, 48, 48, 48, 48, 52, 52,
    57, 54, 48, 49, 51, 51, 56, 48, 55, 50, 52, 52, 57, 54, 48, 50, 56, 56, 57, 54, 55, 53, 55, 53,
    52, 52, 57, 54, 55, 48, 51, 49, 52, 51, 57, 50, 50, 56, 51, 52, 52, 57, 55, 56, 53, 54, 55, 55,
    56, 57, 54, 48, 52, 52, 57, 55, 57, 50, 51, 53, 54, 51, 48, 48, 48, 48, 52, 52, 57, 51, 57, 52,
    56, 56, 57, 54, 56, 54, 57, 57, 52, 52, 57, 51, 57, 52, 52, 53, 50, 49, 48, 48, 48, 48, 52, 52,
    57, 51, 57, 52, 49, 48, 48, 48, 48, 48, 48, 48, 52, 52, 57, 51, 57, 52, 49, 52, 50, 57, 54, 51,
    50, 51, 52, 52, 57, 51, 57, 52, 50, 53, 48, 48, 48, 48, 48, 48, 52, 52, 57, 51, 57, 52, 49, 48,
    50, 57, 50, 57, 56, 56, 52, 52, 57, 51, 57, 52, 51, 51, 56, 56, 48, 48, 48, 48, 52, 52, 57, 51,
    57, 52, 49, 50, 56, 49, 52, 48, 56, 54, 48, 52, 52, 57, 51, 55, 49, 51, 51, 52, 54, 56, 55, 55,
    52, 52, 57, 51, 52, 55, 51, 53, 54, 51, 48, 48, 48, 48, 52, 52, 57, 51, 48, 50, 50, 50, 55, 51,
    52, 50, 57, 57, 52, 52, 57, 51, 48, 50, 49, 48, 48, 48, 48, 48, 48, 52, 52, 57, 51, 48, 50, 53,
    53, 53, 48, 48, 48, 48, 52, 52, 57, 51, 48, 50, 55, 48, 48, 48, 48, 48, 48, 48, 52, 52, 57, 51,
    48, 50, 49, 53, 48, 48, 48, 48, 48, 48, 52, 52, 57, 50, 56, 48, 49, 48, 53, 50, 52, 48, 52, 52,
    57, 49, 57, 54, 51, 51, 56, 55, 48, 48, 48, 48, 52, 52, 57, 49, 57, 53, 55, 54, 49, 48, 48, 48,
    48, 52, 52, 57, 49, 50, 48, 51, 53, 54, 51, 48, 48, 48, 48, 52, 52, 57, 48, 57, 55, 54, 54, 57,
    48, 48, 48, 48, 52, 52, 57, 48, 49, 57, 56, 56, 57, 56, 50>>
(***************************************************************************)
(* The decoded input: Order and Level3Data.                                *)
(***************************************************************************)
\* struct Order (event and timestamp are never read by the computation)
Order(id, price, qty) == [order_id |-> id, limit_price |-> price, order_qty |-> qty]

\* struct Level3Data (symbol is never read)
Level3Data(b, a, c) == [bids |-> b, asks |-> a, checksum |-> c]

(***************************************************************************)
(* The snapshots the model is checked on.  A side is a ladder of n price   *)
(* levels, one order each, 0.1 apart, with at most one change: a second    *)
(* order at a level, a price or quantity that is not exact at its shift, a *)
(* price or quantity that is off by less than the tolerance, or a price    *)
(* that reappears.  A ladder that starts at 0.0 has the price 0.0 first.   *)
(***************************************************************************)
LadderQty(j) == Dec(((j - 1) % 3) + 1, 8)

Ladder(start, dir, n) ==
    [j \in 1..n |-> Order(j, Dec(start + dir * (j - 1), 1), LadderQty(j))]

WithPrice(s, p, price) == [s EXCEPT ![p].limit_price = price]

WithQty(s, p, qty) == [s EXCEPT ![p].order_qty = qty]

WithDup(s, p) ==
    SubSeq(s, 1, p) \o <<Order(Len(s) + 1, s[p].limit_price, Dec(7, 8))>> \o SubSeq(s, p + 1, Len(s))

\* halfway to the next tenth: off by 0.5 after the shift
BadPrice(price) == Dec(10 * price.m + 5, 2)

\* off by 0.0001 after the shift
NearPrice(price) == Dec(10000 * price.m + 1, 5)

BadQty == Dec(25, 9)

NearQty == Dec(20001, 12)

Changed(s) ==
    {WithDup(s, p) : p \in 1..Len(s)}
      \cup {WithPrice(s, p, BadPrice(s[p].limit_price)) : p \in 1..Len(s)}
      \cup {WithQty(s, p, BadQty) : p \in 1..Len(s)}
      \cup {WithPrice(s, p, NearPrice(s[p].limit_price)) : p \in 1..Min(Len(s), 2)}
      \cup {WithQty(s, p, NearQty) : p \in 1..Min(Len(s), 2)}
      \cup {WithPrice(s, p, s[p - 2].limit_price) : p \in 3..Min(Len(s), 4)}

\* asks ascend from 0.1, or from 0.0
PlainAsks == {Ladder(1, 1, n) : n \in 0..MaxLevels} \cup {Ladder(0, 1, n) : n \in 1..MaxLevels}

\* bids descend from above every ask, or from 0.0
PlainBids ==
    {Ladder(2 * MaxLevels, -1, n) : n \in 0..MaxLevels} \cup {Ladder(0, -1, n) : n \in 1..MaxLevels}

AskSides == PlainAsks \cup UNION {Changed(Ladder(1, 1, n)) : n \in 1..MaxLevels}

BidSides == PlainBids \cup UNION {Changed(Ladder(2 * MaxLevels, -1, n)) : n \in 1..MaxLevels}

ShortAsks == {Ladder(1, 1, n) : n \in 0..MaxShort}

ShortBids == {Ladder(2 * MaxLevels, -1, n) : n \in 0..MaxShort}

\* the checksums a feed sends: of the empty string, and of "11"
Checksums == {Crc32Hash(<<>>), Crc32Hash(<<49, 49>>)}

Snapshots ==
    {Level3Data(b, a, c) : b \in ShortBids, a \in AskSides, c \in Checksums}
      \cup {Level3Data(b, a, c) : b \in BidSides, a \in ShortAsks, c \in Checksums}
      \cup {Level3Data(b, a, c) : b \in PlainBids, a \in PlainAsks, c \in Checksums}

\* snapshot["data"]: the array must hold exactly one Level3Data
DataArrays ==
    {<<>>} \cup {<<d>> : d \in Snapshots}
      \cup {<<Level3Data(<<>>, <<>>, Crc32Hash(<<>>)), Level3Data(<<>>, <<>>, Crc32Hash(<<>>))>>}

(***************************************************************************)
(* The program state.                                                      *)
(***************************************************************************)
VARIABLES
    use_reference,      \* the command line said "ref"
    data,               \* the decoded data array
    pc,                 \* "decode", "asks", "bids", "hash", "done", "panic"
    i,                  \* position of the running side iterator (next entry)
    curr_price,         \* of the running scan
    price_level_count,  \* of the running scan
    crc_str,
    out,                \* the per-order lines printed so far
    ref_line,           \* the line the reference comparison printed
    crc,                \* the computed CRC-32, <<>> before it is computed
    result,             \* the verdict line printed, "" before
    panic               \* the place of the assertion that failed, "" if none

vars ==
    <<use_reference, data, pc, i, curr_price, price_level_count, crc_str, out, ref_line, crc,
      result, panic>>

\* let level3_data = &level3_data[0]
level3_data == data[1]

ASK_BREAK_LEVEL == 13

BID_BREAK_LEVEL == 12

ASK_REF_LIMIT == 11

ASK_BUG_LIMIT == 13

BID_LIMIT == 11

\* if order.limit_price != curr_price { curr_price = ...; price_level_count += 1 }
PriceChanged(order, cp) == ~F64Eq(order.limit_price, cp)

NextPrice(order, cp) == IF PriceChanged(order, cp) THEN order.limit_price ELSE cp

NextCount(order, cp, count) == IF PriceChanged(order, cp) THEN count + 1 ELSE count

\* the two asserts of a scanned order
PriceAssert(order) == PrecisionOk(order.limit_price, PRICE_PRECISION_FACTOR)

QtyAssert(order) == PrecisionOk(order.order_qty, QTY_PRECISION_FACTOR)

price_s(order) == Canon(order.limit_price, PRICE_PRECISION_FACTOR)

qty_s(order) == Canon(order.order_qty, QTY_PRECISION_FACTOR)

\* the exclusion of level 11 forgotten
AskKeptNo11(ref, count) ==
    IF ref
    THEN count < ASK_REF_LIMIT
    ELSE count < ASK_BUG_LIMIT /\ count # 10

\* the condition under which an ask's strings are pushed
AskKept(ref, count) ==
    IF ref
    THEN count < ASK_REF_LIMIT
    ELSE count < ASK_BUG_LIMIT /\ count # 10 /\ count # 11

\* the condition under which a bid's strings are pushed
BidKept(count) == count < BID_LIMIT

\* a wrong order of the two pushes
PushQtyFirst(str, order) == (str \o qty_s(order)) \o price_s(order)

\* crc_str.push_str(&price_s); crc_str.push_str(&qty_s)
Push(str, order) == (str \o price_s(order)) \o qty_s(order)

\* println!("Ask level ..") / println!("(ignore Ask level ..)")
Line(side, count, order, kept) ==
    [side |-> side, level |-> count, order |-> order, kept |-> kept]

Init ==
    /\ use_reference \in BOOLEAN
    /\ data \in DataArrays
    /\ pc = "decode"
    /\ i = 1
    /\ curr_price = Dec(0, 0)
    /\ price_level_count = 0
    /\ crc_str = <<>>
    /\ out = <<>>
    /\ ref_line = ""
    /\ crc = <<>>
    /\ result = ""
    /\ panic = ""

\* assert!(level3_data.len() == 1); crc_str = String::new(); the ask block starts
Decode ==
    /\ pc = "decode"
    /\ IF Len(data) = 1
       THEN pc' = "asks" /\ panic' = panic
       ELSE pc' = "panic" /\ panic' = "main.rs:93"
    /\ i' = 1
    /\ curr_price' = Dec(0, 0)
    /\ price_level_count' = 0
    /\ crc_str' = <<>>
    /\ UNCHANGED <<use_reference, data, out, ref_line, crc, result>>

\* where a failed assert of the scan is reported
PriceAssertAt(side) == IF side = "Ask" THEN "main.rs:115" ELSE "main.rs:164"

QtyAssertAt(side) == IF side = "Ask" THEN "main.rs:121" ELSE "main.rs:170"

\* whether the running scan pushes the strings of an order at level `count`
Kept(side, count) == IF side = "Ask" THEN AskKept(use_reference, count) ELSE BidKept(count)

\* one iteration of a scan: `limit` is the break level
ScanStep(side, orders, limit, nextpc) ==
    LET order == orders[i]
        cp    == NextPrice(order, curr_price)
        count == NextCount(order, curr_price, price_level_count)
    IN  IF PriceChanged(order, curr_price) /\ count > limit
        THEN \* break: the block ends, the next one starts
             /\ pc' = nextpc
             /\ i' = 1
             /\ curr_price' = Dec(0, 0)
             /\ price_level_count' = 0
             /\ UNCHANGED <<crc_str, out, panic>>
        ELSE /\ curr_price' = cp
             /\ price_level_count' = count
             /\ IF ~PriceAssert(order)
                THEN /\ pc' = "panic"
                     /\ panic' = PriceAssertAt(side)
                     /\ UNCHANGED <<i, crc_str, out>>
                ELSE IF ~QtyAssert(order)
                THEN /\ pc' = "panic"
                     /\ panic' = QtyAssertAt(side)
                     /\ UNCHANGED <<i, crc_str, out>>
                ELSE /\ pc' = pc
                     /\ panic' = panic
                     /\ i' = i + 1
                     /\ crc_str' = IF Kept(side, count) THEN Push(crc_str, order) ELSE crc_str
                     /\ out' = Append(out, Line(side, count, order, Kept(side, count)))

\* the iterator is exhausted: the block ends, the next one starts
ScanEnd(nextpc) ==
    /\ pc' = nextpc
    /\ i' = 1
    /\ curr_price' = Dec(0, 0)
    /\ price_level_count' = 0
    /\ UNCHANGED <<crc_str, out, panic>>

AskNext ==
    /\ pc = "asks"
    /\ i <= Len(level3_data.asks)
    /\ ScanStep("Ask", level3_data.asks, ASK_BREAK_LEVEL, "bids")
    /\ UNCHANGED <<use_reference, data, ref_line, crc, result>>

AskEnd ==
    /\ pc = "asks"
    /\ i > Len(level3_data.asks)
    /\ ScanEnd("bids")
    /\ UNCHANGED <<use_reference, data, ref_line, crc, result>>

BidNext ==
    /\ pc = "bids"
    /\ i <= Len(level3_data.bids)
    /\ ScanStep("Bid", level3_data.bids, BID_BREAK_LEVEL, "hash")
    /\ UNCHANGED <<use_reference, data, ref_line, crc, result>>

BidEnd ==
    /\ pc = "bids"
    /\ i > Len(level3_data.bids)
    /\ ScanEnd("hash")
    /\ UNCHANGED <<use_reference, data, ref_line, crc, result>>

\* the comparison inverted
VerdictInverted(expected, computed) ==
    IF expected = computed THEN "ERROR: Checksum mismatch!" ELSE "Checksum OK!"

\* if level3_data.checksum != crc { "ERROR: Checksum mismatch!" } else { "Checksum OK!" }
Verdict(expected, computed) ==
    IF expected # computed THEN "ERROR: Checksum mismatch!" ELSE "Checksum OK!"

\* the reference comparison, crc32fast::hash and the verdict
HashAndCompare ==
    /\ pc = "hash"
    /\ ref_line' = IF ~use_reference THEN ""
                   ELSE IF crc_str = ref_str THEN "crc_str matches reference string!"
                   ELSE "ERROR: crc_str does not match reference string!"
    /\ crc' = Crc32Hash(crc_str)
    /\ result' = Verdict(level3_data.checksum, crc')
    /\ pc' = "done"
    /\ UNCHANGED <<use_reference, data, i, curr_price, price_level_count, crc_str, out, panic>>

Next == Decode \/ AskNext \/ AskEnd \/ BidNext \/ BidEnd \/ HashAndCompare

Spec == Init /\ [][Next]_vars

\* the runs on one side alone: the other side is empty and the checksum that of ""
OneSided ==
    {<<Level3Data(<<>>, a, Crc32Hash(<<>>))>> : a \in AskSides \cup BidSides}
      \cup {<<Level3Data(b, <<>>, Crc32Hash(<<>>))>> : b \in AskSides \cup BidSides}

InitOneSided ==
    /\ use_reference \in BOOLEAN
    /\ data \in OneSided
    /\ pc = "decode"
    /\ i = 1
    /\ curr_price = Dec(0, 0)
    /\ price_level_count = 0
    /\ crc_str = <<>>
    /\ out = <<>>
    /\ ref_line = ""
    /\ crc = <<>>
    /\ result = ""
    /\ panic = ""

SpecOneSided == InitOneSided /\ [][Next]_vars

(***************************************************************************)
(* The level counting of a scan as a function of the side.                 *)
(***************************************************************************)
\* the selector that skips level N + 1 and goes on, instead of stopping above N
RECURSIVE SelectSkippingFrom(_, _, _, _, _)
SelectSkippingFrom(orders, k, cp, count, N) ==
    IF k > Len(orders) THEN <<>>
    ELSE LET order == orders[k]
             c     == NextCount(order, cp, count)
         IN  IF c = N + 1
             THEN SelectSkippingFrom(orders, k + 1, NextPrice(order, cp), c, N)
             ELSE <<[order |-> order, level |-> c]>>
                    \o SelectSkippingFrom(orders, k + 1, NextPrice(order, cp), c, N)

SelectSkipping(orders, N) == SelectSkippingFrom(orders, 1, Dec(0, 0), 0, N)

\* the loop from entry k on, entered with (cp, count), with N in place of the break level
RECURSIVE SelectFrom(_, _, _, _, _)
SelectFrom(orders, k, cp, count, N) ==
    IF k > Len(orders) THEN <<>>
    ELSE LET order == orders[k]
             c     == NextCount(order, cp, count)
         IN  IF PriceChanged(order, cp) /\ c > N
             THEN <<>>
             ELSE <<[order |-> order, level |-> c]>>
                    \o SelectFrom(orders, k + 1, NextPrice(order, cp), c, N)

\* the orders a scan with break level N visits, each with its price_level_count
Select(orders, N) == SelectFrom(orders, 1, Dec(0, 0), 0, N)

\* the orders of a selection, without their levels
Orders(sel) == [k \in 1..Len(sel) |-> sel[k].order]

(***************************************************************************)
(* Definitions the properties are stated with.                             *)
(***************************************************************************)
Decoded == Len(data) = 1 /\ pc # "decode"

Asks == level3_data.asks

Bids == level3_data.bids

\* the bound levels_per_side: a level is within it when its index is below BID_LIMIT
LevelsPerSide == BID_LIMIT - 1

\* the 1-based index of the price level of orders[k]: the first order is at level 1
\* and the index grows by one wherever the price differs from the order before
LevelIndex(orders, k) ==
    Cardinality({j \in 1..k : j = 1 \/ ~F64Eq(orders[j].limit_price, orders[j - 1].limit_price)})

\* the orders of the first N price levels
FirstLevels(orders, N) ==
    SubSeq(orders, 1, Cardinality({k \in 1..Len(orders) : LevelIndex(orders, k) <= N}))

IsAskLine(l) == l.side = "Ask"

IsBidLine(l) == l.side = "Bid"

IsKeptLine(l) == l.kept

AskLines == SelectSeq(out, IsAskLine)

BidLines == SelectSeq(out, IsBidLine)

KeptOrders(lines) == Orders(SelectSeq(lines, IsKeptLine))

Tagged(lines) == [k \in 1..Len(lines) |-> [order |-> lines[k].order, level |-> lines[k].level]]

\* the canonical strings of a sequence of orders, price then quantity, no separator
RECURSIVE Contribution(_)
Contribution(orders) ==
    IF orders = <<>> THEN <<>>
    ELSE (price_s(Head(orders)) \o qty_s(Head(orders))) \o Contribution(Tail(orders))

IsPrefix(s, t) == Len(s) <= Len(t) /\ SubSeq(t, 1, Len(s)) = s

\* value * 10^shift is at least 1e-3 away from the nearest integer
Deviates(value, shift) ==
    IF value.e <= shift THEN FALSE
    ELSE LET unit == Pow10(value.e - shift)
             r    == Abs(value.m) % unit
         IN  1000 * Min(r, unit - r) >= unit

Inexact(order) == Deviates(order.limit_price, 1) \/ Deviates(order.order_qty, 8)

\* asks ascend and bids descend
Ascending(orders) ==
    \A k \in 1..(Len(orders) - 1) :
        ~F64Lt(orders[k + 1].limit_price, orders[k].limit_price)

Descending(orders) ==
    \A k \in 1..(Len(orders) - 1) :
        ~F64Lt(orders[k].limit_price, orders[k + 1].limit_price)

\* both sides are in price order, as a feed sends them
Ordered == Ascending(Asks) /\ Descending(Bids)

Finished == pc \in {"hash", "done"}

(***************************************************************************)
(* C1: for each side the entries that contribute to the checksum string    *)
(* are exactly the entries of the first 10 price levels (1-based, counted  *)
(* by consecutive price changes), in their order; nothing at or after the  *)
(* first entry of level 11 contributes.  Stated for the runs that are      *)
(* given "ref" (no level is excluded) on sides in price order: the code    *)
(* does not do this even there.                                            *)
(***************************************************************************)
C1_FirstTenLevelsContribute ==
    (Decoded /\ Finished /\ Ordered /\ use_reference) =>
        /\ KeptOrders(AskLines) = FirstLevels(Asks, LevelsPerSide)
        /\ KeptOrders(BidLines) = FirstLevels(Bids, LevelsPerSide)
        /\ crc_str = Contribution(FirstLevels(Asks, LevelsPerSide))
                       \o Contribution(FirstLevels(Bids, LevelsPerSide))

(***************************************************************************)
(* C2: the checksum string is the contribution of the kept asks followed   *)
(* by that of the kept bids, each kept entry giving its price string       *)
(* immediately followed by its quantity string; the string only ever grows *)
(* at its end, so every intermediate string is a prefix of the final one   *)
(* and the bid pass leaves the ask part as it is.                          *)
(***************************************************************************)
C2_StringShape ==
    /\ \A a, b \in DOMAIN out : (a < b /\ out[a].side = "Bid") => out[b].side = "Bid"
    /\ crc_str = Contribution(KeptOrders(AskLines)) \o Contribution(KeptOrders(BidLines))
    /\ pc = "asks" => BidLines = <<>>

C2_ChecksumStringBuilt ==
    /\ []C2_StringShape
    /\ [][IsPrefix(crc_str, crc_str')
          /\ (pc = "bids" => IsPrefix(Contribution(KeptOrders(AskLines)), crc_str'))]_vars

C2_Witness ==
    /\ pc = "done"
    /\ Len(KeptOrders(AskLines)) >= 2
    /\ Len(KeptOrders(BidLines)) >= 1
    /\ Len(crc_str) >= 6

(***************************************************************************)
(* C3: when an entry of the first 10 levels of a side, or any entry the    *)
(* scan would keep, has a price (shift 1) or a quantity (shift 8) that is  *)
(* 1e-3 or more away from an integer after the shift, the run ends in the  *)
(* failed assertion: it never gets to hash or compare, no CRC and no       *)
(* verdict exists, and the offending entry is never pushed.                *)
(***************************************************************************)
\* the orders a side's scan visits when no assertion fails
Scanned(side, orders) ==
    Select(orders, IF side = "Ask" THEN ASK_BREAK_LEVEL ELSE BID_BREAK_LEVEL)

InexactSelected(side, orders) ==
    LET sel == Scanned(side, orders)
    IN  {k \in 1..Len(orders) :
            /\ Inexact(orders[k])
            /\ \/ LevelIndex(orders, k) <= LevelsPerSide
               \/ (k <= Len(sel) /\ Kept(side, sel[k].level))}

C3_PrecisionError ==
    Decoded =>
        /\ \A k \in DOMAIN out : ~Inexact(out[k].order)
        /\ (pc = "panic") => (crc = <<>> /\ result = "")
        /\ (panic \in {"main.rs:115", "main.rs:121"}) => (pc = "panic" /\ Inexact(Asks[i]))
        /\ (panic \in {"main.rs:164", "main.rs:170"}) => (pc = "panic" /\ Inexact(Bids[i]))
        /\ (InexactSelected("Ask", Asks) # {}) =>
               /\ pc \in {"asks", "panic"}
               /\ \A k \in InexactSelected("Ask", Asks) : Len(AskLines) < k
        /\ (InexactSelected("Bid", Bids) # {}) =>
               /\ pc \in {"asks", "bids", "panic"}
               /\ \A k \in InexactSelected("Bid", Bids) : Len(BidLines) < k

C3_Witness ==
    /\ Decoded
    /\ pc = "panic"
    /\ panic = "main.rs:115"
    /\ Len(AskLines) >= 2
    /\ InexactSelected("Ask", Asks) = {Len(AskLines) + 1}
    /\ crc_str # <<>>

(***************************************************************************)
(* C4: on each side the entries that contribute to the checksum string     *)
(* come from at most 10 distinct price levels (stated for sides in price   *)
(* order).  The code does not guarantee this.                              *)
(***************************************************************************)
KeptLevels(orders, lines) ==
    {LevelIndex(orders, k) : k \in {j \in 1..Len(lines) : lines[j].kept}}

C4_AtMostTenLevels ==
    (Decoded /\ Ordered) =>
        /\ Cardinality(KeptLevels(Asks, AskLines)) <= LevelsPerSide
        /\ Cardinality(KeptLevels(Bids, BidLines)) <= LevelsPerSide

(***************************************************************************)
(* C5: entries beyond the first 10 price levels of a side are ignored and  *)
(* never rejected as errors: no assertion fails on an entry whose level    *)
(* index is above 10 (stated for sides in price order).  The code does not *)
(* do this.                                                                *)
(***************************************************************************)
C5_BeyondBoundIgnored ==
    (Decoded /\ Ordered) =>
        /\ (panic \in {"main.rs:115", "main.rs:121"}) => LevelIndex(Asks, i) <= LevelsPerSide
        /\ (panic \in {"main.rs:164", "main.rs:170"}) => LevelIndex(Bids, i) <= LevelsPerSide

(***************************************************************************)
(* C6 as claimed: the run without "ref" keeps exactly the asks the run     *)
(* with "ref" keeps, less those of levels 10 and 11; every other ask level *)
(* contributes the same entries in both modes (on sides in price order).   *)
(***************************************************************************)
\* the positions, among the asks a complete scan visits, of those `ref` keeps
AskKeptSet(sel, ref) == {k \in 1..Len(sel) : AskKept(ref, sel[k].level)}

\* the positions of those at the given levels
LevelSet(sel, levels) == {k \in 1..Len(sel) : sel[k].level \in levels}

KeptPositions(lines) == {k \in 1..Len(lines) : lines[k].kept}

C7_Verdict ==
    /\ (result # "") <=> (pc = "done")
    /\ (crc # <<>>) <=> (pc = "done")
    /\ (pc = "panic") <=> (panic # "")
    /\ result \in {"", "Checksum OK!", "ERROR: Checksum mismatch!"}
    /\ (pc = "done") =>
           /\ Decoded
           /\ Tagged(AskLines) = Scanned("Ask", Asks)
           /\ Tagged(BidLines) = Scanned("Bid", Bids)
           /\ crc_str = Contribution(KeptOrders(AskLines)) \o Contribution(KeptOrders(BidLines))
           /\ crc = Crc32Hash(crc_str)
           /\ (result = "Checksum OK!") <=> (crc = level3_data.checksum)
           /\ (crc_str = <<49, 49>>) => (crc = <<119, 21, 90, 214>>)

C7_Witness ==
    /\ result = "Checksum OK!"
    /\ crc_str = <<49, 49>>

C7_WitnessMismatch ==
    /\ result = "ERROR: Checksum mismatch!"
    /\ crc_str # <<>>

(***************************************************************************)
(* C8: a side that is not in price order (asks ascending, bids descending) *)
(* is refused before any stage runs: the run never hashes a checksum       *)
(* string and never gives a verdict for it.  The code does not check the   *)
(* order.                                                                  *)
(***************************************************************************)
C8_UnorderedRefused ==
    (Decoded /\ ~Ordered) => (crc = <<>> /\ result = "")

(***************************************************************************)
(* C9: the first entry of a side gets level index 1 whatever its price,    *)
(* and no entry gets level index 0.  The code gives a first price of 0.0   *)
(* the index 0.                                                            *)
(***************************************************************************)
C9_FirstLevelIsOne ==
    /\ \A k \in DOMAIN out : out[k].level >= 1
    /\ (AskLines # <<>>) => AskLines[1].level = 1
    /\ (BidLines # <<>>) => BidLines[1].level = 1

(***************************************************************************)
(* C10: selection is idempotent under truncation: for N' < N, selecting    *)
(* with N' from the selection with N gives the orders and level indices    *)
(* that selecting with N' from the side gives, and these are a prefix of   *)
(* the selection with N.  The scans are the instances N = 13 (asks) and    *)
(* N = 12 (bids), and what the bid scan keeps is its truncation to 10.     *)
(***************************************************************************)
Truncates(orders) ==
    \A N \in 1..MaxN :
        LET selN == Select(orders, N)
            ordN == Orders(selN)
        IN  \A M \in 0..(N - 1) :
                LET selM == Select(orders, M)
                IN  Select(ordN, M) = selM /\ IsPrefix(selM, selN)

C10_SelectionTruncates ==
    /\ (pc = "decode" /\ Len(data) = 1) => (Truncates(Asks) /\ Truncates(Bids))
    /\ (pc = "hash") =>
           /\ Tagged(AskLines) = Select(Asks, ASK_BREAK_LEVEL)
           /\ Tagged(BidLines) = Select(Bids, BID_BREAK_LEVEL)
           /\ KeptOrders(BidLines) = Orders(Select(Orders(Tagged(BidLines)), LevelsPerSide))
           /\ use_reference =>
                  KeptOrders(AskLines) = Orders(Select(Orders(Tagged(AskLines)), LevelsPerSide))

C10_Witness ==
    /\ pc = "hash"
    /\ Len(AskLines) < Len(Asks)
    /\ Len(KeptOrders(AskLines)) < Len(AskLines)
    /\ use_reference
    /\ Len(AskLines) > ASK_BREAK_LEVEL
=============================================================================
